---------------------------- MODULE Spec2Model ----------------------------
(***************************************************************************)
(* Model of the garage-management backend (src/server.js).                 *)
(*                                                                         *)
(* The program is a set of HTTP handlers over a PostgreSQL database.  The  *)
(* state is the committed database (db), the id sequences (seqs), the      *)
(* server clock (now) and, per request slot, the handler's position (pc),  *)
(* its request (req), its local variables (loc), the transaction of its    *)
(* pooled client (tx), whether it holds a pooled client (held) and the     *)
(* response it has sent (resp).  One action models one awaited statement   *)
(* of a handler together with the synchronous code around it.              *)
(*                                                                         *)
(* Database semantics (PostgreSQL, READ COMMITTED): a statement on a       *)
(* client with an open transaction is buffered in that transaction and is  *)
(* visible to that client only; COMMIT applies the buffered writes, a      *)
(* ROLLBACK drops them; a statement outside a transaction commits at once. *)
(* An UPDATE or DELETE fixes the rows it matches when it runs, locks them   *)
(* until its transaction ends, and waits for rows another transaction has  *)
(* locked.                                                                 *)
(* The schema is not part of the repository: tables carry only the columns *)
(* the statements name, and no foreign key acts on its own (a constraint   *)
(* that rejects a statement is one of the storage failures Throw models).  *)
(*                                                                         *)
(* Amounts: prices, line totals and the garage rate are whole currency     *)
(* units.  The invoice columns subtotal, tax and total are kept in         *)
(* hundredths of a unit (Scale), which represents subtotal * 0.18 exactly. *)
(***************************************************************************)
EXTENDS Integers, Sequences, FiniteSets, TLC

VARIABLES db, seqs, now, pc, req, loc, tx, held, resp

vars == <<db, seqs, now, pc, req, loc, tx, held, resp>>

(***************************************************************************)
(* Bounds and program constants                                            *)
(***************************************************************************)
MaxInvoices == 2
MaxConcInvoices == 1
MaxDays == 2
MaxTime == 3
MaxPayments == 2
MaxVehicles == 2
MaxParts == 3
MaxWorkers == 3

GarageStayRate == 5000
TaxPercent == 18
Scale == 100

\* A request field that is absent (undefined in JavaScript); NULL column value.
MISSING == -1
NULL == 0

Clients == {1, 2}
SeqClients == {1}

\* !x in JavaScript for the values a numeric field takes here.
Falsy(x) == x = MISSING \/ x = 0

\* Number(x) / parseFloat(x || 0) for the values a numeric field takes here.
NumberOrZero(x) == IF Falsy(x) THEN 0 ELSE x

RECURSIVE SumSeq(_)
SumSeq(s) == IF s = <<>> THEN 0 ELSE Head(s) + SumSeq(Tail(s))

(***************************************************************************)
(* Tables and row-level writes                                             *)
(***************************************************************************)
Range(s) == {s[i] : i \in 1..Len(s)}

ItemTotals(items) == [i \in 1..Len(items) |-> items[i].total]

ItemsOf(d, invoiceId) == SelectSeq(d.invoice_items, LAMBDA it : it.invoice_id = invoiceId)

ServicesOfVehicle(d, vid) == SelectSeq(d.vehicle_services, LAMBDA vs : vs.vehicle_id = vid)

PartsOfVehicle(d, vid) == SelectSeq(d.vehicle_parts, LAMBDA vp : vp.vehicle_id = vid)

ServicePartsOfVehicle(d, vid) ==
  SelectSeq(d.vehicle_service_parts, LAMBDA vp : vp.vehicle_id = vid)

InvoicesOfVehicle(d, vid) == {i \in DOMAIN d.invoices : d.invoices[i].vehicle_id = vid}

\* A table has no row order of its own: the rows of the per-vehicle tables
\* are kept grouped by vehicle_id, in insertion order within a vehicle.
InsertRow(rows, row) ==
  SelectSeq(rows, LAMBDA x : x.vehicle_id <= row.vehicle_id) \o <<row>>
    \o SelectSeq(rows, LAMBDA x : x.vehicle_id > row.vehicle_id)

ApplyEffect(d, e) ==
  CASE e.k = "insInvoice" -> [d EXCEPT !.invoices = @ @@ (e.id :> e.row)]
    [] e.k = "insItem" -> [d EXCEPT !.invoice_items = Append(@, e.row)]
    [] e.k = "updTotals" ->
         IF e.id \in DOMAIN d.invoices
         THEN [d EXCEPT !.invoices[e.id].subtotal = e.subtotal,
                        !.invoices[e.id].tax = e.tax,
                        !.invoices[e.id].total = e.total]
         ELSE d
    [] e.k = "delItems" ->
         [d EXCEPT !.invoice_items = SelectSeq(@, LAMBDA it : it \notin e.rows)]
    [] e.k = "delInvoice" -> [d EXCEPT !.invoices = [x \in DOMAIN @ \ e.ids |-> @[x]]]
    [] e.k = "delVehicle" -> [d EXCEPT !.vehicles = [x \in DOMAIN @ \ e.ids |-> @[x]]]
    [] e.k = "setExit" ->
         IF e.id \in DOMAIN d.vehicles
         THEN [d EXCEPT !.vehicles[e.id].exit_time = e.at]
         ELSE d
    [] e.k = "setStatus" ->
         [d EXCEPT !.vehicle_services =
            [i \in 1..Len(@) |->
               IF @[i].vehicle_id = e.vehicle_id /\ @[i].service_id = e.service_id
               THEN [@[i] EXCEPT !.status = e.status]
               ELSE @[i]]]
    [] e.k = "setWorker" ->
         [d EXCEPT !.services =
            [sv \in DOMAIN @ |->
               IF sv \in e.ids THEN [@[sv] EXCEPT !.worker_id = e.worker_id] ELSE @[sv]]]
    [] e.k = "insPayment" -> [d EXCEPT !.worker_payments = @ @@ (e.id :> e.row)]
    [] e.k = "delPayments" ->
         [d EXCEPT !.worker_payments = [x \in DOMAIN @ \ e.ids |-> @[x]]]
    [] e.k = "delWorker" -> [d EXCEPT !.workers = @ \ e.ids]
    [] e.k = "insVehicle" -> [d EXCEPT !.vehicles = @ @@ (e.id :> e.row)]
    [] e.k = "updVehicle" ->
         IF e.id \in DOMAIN d.vehicles
         THEN [d EXCEPT !.vehicles[e.id].plate = e.plate,
                        !.vehicles[e.id].owner = e.owner,
                        !.vehicles[e.id].contact_number = e.contact_number]
         ELSE d
    [] e.k = "insVS" -> [d EXCEPT !.vehicle_services = InsertRow(@, e.row)]
    [] e.k = "insVP" -> [d EXCEPT !.vehicle_parts = InsertRow(@, e.row)]
    [] e.k = "insVSP" -> [d EXCEPT !.vehicle_service_parts = InsertRow(@, e.row)]
    [] e.k = "delVP" ->
         [d EXCEPT !.vehicle_parts = SelectSeq(@, LAMBDA vp : vp \notin e.rows)]
    [] e.k = "delVSP" ->
         [d EXCEPT !.vehicle_service_parts = SelectSeq(@, LAMBDA vp : vp \notin e.rows)]
    [] e.k = "updPart" ->
         IF e.id \in DOMAIN d.parts
         THEN [d EXCEPT !.parts[e.id] = e.row]
         ELSE d
    [] e.k = "insPart" -> [d EXCEPT !.parts = @ @@ (e.id :> e.row)]
    [] e.k = "insWorker" -> [d EXCEPT !.workers = @ \cup {e.id}]
    [] e.k = "delPart" -> [d EXCEPT !.parts = [x \in DOMAIN @ \ {e.id} |-> @[x]]]
    [] OTHER -> d

RECURSIVE ApplyAll(_, _)
ApplyAll(d, w) == IF w = <<>> THEN d ELSE ApplyAll(ApplyEffect(d, Head(w)), Tail(w))

NoTx == [open |-> FALSE, w |-> <<>>]

\* A handler that never issues BEGIN: its statements commit one by one.
BeginTxNoop(t) == t

BeginTx(t) == [open |-> TRUE, w |-> <<>>]

\* What a statement issued on slot r's client reads.
View(r) == IF tx[r].open THEN ApplyAll(db, tx[r].w) ELSE db

\* The rows a DELETE or UPDATE matches are fixed when the statement runs on
\* the data d it reads: the write keeps those rows, not its WHERE clause.
Resolve(d, e) ==
  CASE e.k = "delItems" -> [k |-> e.k, rows |-> Range(ItemsOf(d, e.id))]
    [] e.k = "delInvoice" -> [k |-> e.k, ids |-> {e.id} \cap DOMAIN d.invoices]
    [] e.k = "delVehicle" -> [k |-> e.k, ids |-> {e.id} \cap DOMAIN d.vehicles]
    [] e.k = "delWorker" -> [k |-> e.k, ids |-> {e.id} \cap d.workers]
    [] e.k = "delVP" -> [k |-> e.k, rows |-> Range(PartsOfVehicle(d, e.vehicle_id))]
    [] e.k = "delVSP" ->
         [k |-> e.k, rows |-> Range(ServicePartsOfVehicle(d, e.vehicle_id))]
    [] OTHER -> e

\* The existing rows a resolved write locks until its transaction ends.
Keys(d, e) ==
  CASE e.k = "delItems" -> {<<"invoice_items", x>> : x \in e.rows}
    [] e.k = "delInvoice" -> {<<"invoices", x>> : x \in e.ids}
    [] e.k = "updTotals" -> {<<"invoices", x>> : x \in {e.id} \cap DOMAIN d.invoices}
    [] e.k \in {"delVehicle"} -> {<<"vehicles", x>> : x \in e.ids}
    [] e.k \in {"setExit", "updVehicle"} ->
         {<<"vehicles", x>> : x \in {e.id} \cap DOMAIN d.vehicles}
    [] e.k = "setStatus" ->
         {<<"vehicle_services", x>> :
            x \in {y \in Range(d.vehicle_services) :
                     y.vehicle_id = e.vehicle_id /\ y.service_id = e.service_id}}
    [] e.k = "setWorker" -> {<<"services", x>> : x \in e.ids}
    [] e.k = "delPayments" -> {<<"worker_payments", x>> : x \in e.ids}
    [] e.k = "delWorker" -> {<<"workers", x>> : x \in e.ids}
    [] e.k \in {"updPart", "delPart"} ->
         {<<"parts", x>> : x \in {e.id} \cap DOMAIN d.parts}
    [] e.k = "delVP" -> {<<"vehicle_parts", x>> : x \in e.rows}
    [] e.k = "delVSP" -> {<<"vehicle_service_parts", x>> : x \in e.rows}
    [] OTHER -> {}

\* The committed rows locked by the open transaction of slot q.
RECURSIVE LocksOf(_, _)
LocksOf(d, w) ==
  IF w = <<>> THEN {}
  ELSE Keys(d, Head(w)) \cup LocksOf(ApplyEffect(d, Head(w)), Tail(w))

LockedByOthers(r) ==
  UNION {IF tx[q].open THEN LocksOf(db, tx[q].w) ELSE {} : q \in DOMAIN tx \ {r}}

\* A write issued on slot r's client.  It waits while a row it matches is
\* locked by another transaction.
Exec(r, e) ==
  LET re == Resolve(View(r), e)
  IN /\ Keys(View(r), re) \cap LockedByOthers(r) = {}
     /\ IF tx[r].open
        THEN /\ tx' = [tx EXCEPT ![r].w = Append(@, re)]
             /\ db' = db
        ELSE /\ db' = ApplyEffect(db, re)
             /\ tx' = tx

\* A write issued through pool.query: its own implicit transaction.
PoolExec(e) ==
  LET re == Resolve(db, e)
  IN /\ Keys(db, re) \cap LockedByOthers(0) = {}
     /\ db' = ApplyEffect(db, re)
     /\ tx' = tx

(***************************************************************************)
(* Request slots                                                           *)
(***************************************************************************)
NoReq == [op |-> "none"]

\* Array.isArray(req.body[field]): the request names the list fields it omits.
IsArray(rq, field) == field \notin rq.omitted
NoLoc == [i |-> 0]

NoResp == [status |-> 0, error |-> ""]

\* res.status(code).json(...) followed by the finally block's client.release()
\* (a handler that took no client has none to release).
Respond(r, code, msg) ==
  /\ resp' = [resp EXCEPT ![r] = [status |-> code, error |-> msg]]
  /\ held' = [held EXCEPT ![r] = FALSE]
  /\ pc' = [pc EXCEPT ![r] = "done"]

(***************************************************************************)
(* POST /api/invoices                                                      *)
(***************************************************************************)
InvoiceValid(rq) == ~(Falsy(rq.vehicle_id) \/ Falsy(rq.days_in_garage))

ServiceLineTotal(svc) == NumberOrZero(svc.unit_price)

\* A line total that forgets the quantity.
PartLineTotalUnit(selling_cost, quantity) == selling_cost

PartLineTotal(selling_cost, quantity) == selling_cost * quantity

\* A subtotal that forgets the garage stay.
SubtotalOfNoStay(itemsTotal, days) == itemsTotal

SubtotalOf(itemsTotal, days) == itemsTotal + days * GarageStayRate

(***************************************************************************)
(* JavaScript numbers.  tax and total are IEEE 754 doubles, and the driver *)
(* sends a number as its shortest decimal text.  Such a number is kept as  *)
(* [h, ulp]: the double that lies ulp units in the last place above the    *)
(* double nearest to h hundredths.  With ulp = 0 its text is h / 100       *)
(* exactly (1440.18); with ulp # 0 it is not (1440.1799999999998).         *)
(* Prices and quantities are whole numbers here, so every other amount is  *)
(* a whole number and exact.                                               *)
(***************************************************************************)
Exact(h) == [h |-> h, ulp |-> 0]

RECURSIVE Pow2Mod(_, _)
Pow2Mod(n, m) == IF n = 0 THEN 1 % m ELSE (2 * Pow2Mod(n - 1, m)) % m

\* The largest e >= 0 with 100 * 2^e <= n (n >= 100).
RECURSIVE Log2Hundredths(_, _)
Log2Hundredths(n, e) == IF 100 * 2^(e + 1) <= n THEN Log2Hundredths(n, e + 1) ELSE e

\* The last place of a double near c * s / 800 is worth 2^UlpExp(c, s) * 2^-55.
UlpExp(c, s) == Log2Hundredths(c * s, 0)

\* s * 0.18 for a whole s >= 1.  The double 0.18 is (18 * 2^55 - 24) / 100
\* * 2^-55, so in steps of g = 2^e * 2^-55 the exact product is
\* I + k/25 - 6s/(25g) with I whole and k = 9 * s * 2^(54-e) mod 25; the
\* result is I + up, rounded to nearest, ties to the even neighbour, while
\* the double nearest to 18s/100 is I + near.
TaxRounding(s) ==
  LET e == UlpExp(144, s)
      g == 2^e
      a == (((9 * s) % 50) * Pow2Mod(54 - e, 50)) % 50
      k == a % 25
      n == k * g - 6 * s
  IN [e |-> e,
      up |-> IF 2 * n > 25 * g THEN 1
             ELSE IF 2 * n < 25 * g THEN 0
             ELSE IF a >= 25 THEN 1 ELSE 0,
      near |-> IF 2 * k > 25 THEN 1 ELSE 0]

\* subtotal + tax for tax = subtotal * 0.18: the sum is exact in steps of
\* 2^-55 and is rounded to the coarser last place of the total (j binary
\* places coarser than that of the tax).
TotalRounding(s) ==
  LET t == TaxRounding(s)
      e2 == UlpExp(944, s)
      j == e2 - t.e
      m == 25 * 2^(j + 1)
      low == ((((9 * s) % m) * Pow2Mod(54 - t.e, m)) % m) \div 25
      nlow == low + t.up
      q == nlow \div 2^j
      rem == nlow % 2^j
      k2 == (((59 * s) % 25) * Pow2Mod(54 - e2, 25)) % 25
  IN [up |-> (q - (low \div 2^j))
               + (IF 2 * rem > 2^j THEN 1
                  ELSE IF 2 * rem < 2^j THEN 0
                  ELSE q % 2),
      near |-> IF 2 * k2 > 25 THEN 1 ELSE 0]

\* const tax = subtotal * 0.18
TaxOf(subtotal) ==
  [h |-> subtotal * TaxPercent,
   ulp |-> IF subtotal = 0 THEN 0
           ELSE TaxRounding(subtotal).up - TaxRounding(subtotal).near]

\* const total = subtotal + tax
TotalOf(subtotal) ==
  [h |-> subtotal * (Scale + TaxPercent),
   ulp |-> IF subtotal = 0 THEN 0
           ELSE TotalRounding(subtotal).up - TotalRounding(subtotal).near]

\* Where the handler goes once line i of the current list is done.
AfterServices(rq) ==
  IF IsArray(rq, "parts") /\ Len(rq.parts) > 0 THEN "ci_part_select" ELSE "ci_totals"

AfterInvoiceInsert(rq) ==
  IF IsArray(rq, "services") /\ Len(rq.services) > 0 THEN "ci_service"
  ELSE AfterServices(rq)

CI_Connect(r, rq) ==
  /\ pc[r] = "idle"
  /\ seqs.invoices < MaxInvoices
  /\ pc' = [pc EXCEPT ![r] = "ci_begin"]
  /\ req' = [req EXCEPT ![r] = rq]
  /\ held' = [held EXCEPT ![r] = TRUE]
  /\ UNCHANGED <<db, seqs, now, loc, tx, resp>>

CI_Begin(r) ==
  /\ pc[r] = "ci_begin"
  /\ IF InvoiceValid(req[r])
     THEN /\ tx' = [tx EXCEPT ![r] = BeginTx(@)]
          /\ pc' = [pc EXCEPT ![r] = "ci_insert"]
          /\ UNCHANGED <<held, resp>>
     ELSE /\ Respond(r, 400, "Vehicle ID and days in garage are required.")
          /\ tx' = tx
  /\ UNCHANGED <<db, seqs, now, req, loc>>

CI_InsertInvoice(r) ==
  /\ pc[r] = "ci_insert"
  /\ LET id == seqs.invoices + 1
         row == [vehicle_id |-> req[r].vehicle_id,
                 days_in_garage |-> req[r].days_in_garage,
                 garage_stay_rate |-> GarageStayRate,
                 subtotal |-> 0, tax |-> Exact(0), total |-> Exact(0)]
     IN /\ seqs' = [seqs EXCEPT !.invoices = id]
        /\ Exec(r, [k |-> "insInvoice", id |-> id, row |-> row])
        /\ loc' = [loc EXCEPT ![r] = [i |-> 1, invoiceId |-> id, itemsTotal |-> 0,
                                      purchasing_cost |-> 0, selling_cost |-> 0]]
  /\ pc' = [pc EXCEPT ![r] = AfterInvoiceInsert(req[r])]
  /\ UNCHANGED <<now, req, held, resp>>

CI_InsertService(r) ==
  /\ pc[r] = "ci_service"
  /\ LET svc == req[r].services[loc[r].i]
         lineTotal == ServiceLineTotal(svc)
         last == loc[r].i = Len(req[r].services)
     IN /\ Exec(r, [k |-> "insItem",
                    row |-> [invoice_id |-> loc[r].invoiceId, item_type |-> "service",
                             item_id |-> svc.id, quantity |-> 1, purchased_cost |-> NULL,
                             unit_price |-> lineTotal, total |-> lineTotal]])
        /\ loc' = [loc EXCEPT ![r].itemsTotal = @ + lineTotal,
                              ![r].i = IF last THEN 1 ELSE @ + 1]
        /\ pc' = [pc EXCEPT ![r] = IF last THEN AfterServices(req[r]) ELSE "ci_service"]
  /\ UNCHANGED <<seqs, now, req, held, resp>>

CI_SelectPart(r) ==
  /\ pc[r] = "ci_part_select"
  /\ LET part == req[r].parts[loc[r].i]
         parts == View(r).parts
     IN IF part.id \notin DOMAIN parts
        THEN /\ pc' = [pc EXCEPT ![r] = "catch"]
             /\ loc' = loc
        ELSE /\ pc' = [pc EXCEPT ![r] = "ci_part_insert"]
             /\ loc' = [loc EXCEPT ![r].purchasing_cost = parts[part.id].purchasing_cost,
                                   ![r].selling_cost = parts[part.id].selling_cost]
  /\ UNCHANGED <<db, seqs, now, req, tx, held, resp>>

CI_InsertPart(r) ==
  /\ pc[r] = "ci_part_insert"
  /\ LET part == req[r].parts[loc[r].i]
         lineTotal == PartLineTotal(loc[r].selling_cost, part.quantity)
         last == loc[r].i = Len(req[r].parts)
     IN /\ Exec(r, [k |-> "insItem",
                    row |-> [invoice_id |-> loc[r].invoiceId, item_type |-> "part",
                             item_id |-> part.id, quantity |-> part.quantity,
                             purchased_cost |-> loc[r].purchasing_cost,
                             unit_price |-> loc[r].selling_cost, total |-> lineTotal]])
        /\ loc' = [loc EXCEPT ![r].itemsTotal = @ + lineTotal,
                              ![r].i = IF last THEN 1 ELSE @ + 1]
        /\ pc' = [pc EXCEPT ![r] = IF last THEN "ci_totals" ELSE "ci_part_select"]
  /\ UNCHANGED <<seqs, now, req, held, resp>>

CI_UpdateTotals(r) ==
  /\ pc[r] = "ci_totals"
  /\ LET subtotal == SubtotalOf(loc[r].itemsTotal, req[r].days_in_garage)
         tax == TaxOf(subtotal)
         total == TotalOf(subtotal)
     IN Exec(r, [k |-> "updTotals", id |-> loc[r].invoiceId,
                 subtotal |-> subtotal * Scale, tax |-> tax, total |-> total])
  /\ pc' = [pc EXCEPT ![r] = "ci_commit"]
  /\ UNCHANGED <<seqs, now, req, loc, held, resp>>

CI_Commit(r) ==
  /\ pc[r] = "ci_commit"
  /\ db' = ApplyAll(db, tx[r].w)
  /\ tx' = [tx EXCEPT ![r] = NoTx]
  /\ Respond(r, 201, "")
  /\ UNCHANGED <<seqs, now, req, loc>>

(***************************************************************************)
(* POST /api/parts                                                         *)
(***************************************************************************)
NewPartValid(rq) ==
  ~(Falsy(rq.name) \/ Falsy(rq.part_number)
      \/ rq.purchasing_cost = MISSING \/ rq.selling_cost = MISSING)

CP_Receive(r, rq) ==
  /\ pc[r] = "idle"
  /\ seqs.parts < MaxParts
  /\ req' = [req EXCEPT ![r] = rq]
  /\ IF NewPartValid(rq)
     THEN /\ pc' = [pc EXCEPT ![r] = "cp_insert"]
          /\ UNCHANGED <<held, resp>>
     ELSE Respond(r, 400, "All fields are required")
  /\ UNCHANGED <<db, seqs, now, loc, tx>>

CP_Insert(r) ==
  /\ pc[r] = "cp_insert"
  /\ LET id == seqs.parts + 1
     IN /\ seqs' = [seqs EXCEPT !.parts = id]
        /\ PoolExec([k |-> "insPart", id |-> id,
                     row |-> [purchasing_cost |-> req[r].purchasing_cost,
                              selling_cost |-> req[r].selling_cost]])
  /\ Respond(r, 201, "")
  /\ UNCHANGED <<now, req, loc>>

CreatePart(r, Rqs) ==
  \/ \E rq \in Rqs : CP_Receive(r, rq)
  \/ CP_Insert(r)

(***************************************************************************)
(* PUT /api/parts/:id                                                      *)
(***************************************************************************)
\* name and part_number are supplied; the cost fields may be absent.
PartValid(rq) == ~(rq.purchasing_cost = MISSING \/ rq.selling_cost = MISSING)

UP_Receive(r, rq) ==
  /\ pc[r] = "idle"
  /\ req' = [req EXCEPT ![r] = rq]
  /\ IF PartValid(rq)
     THEN /\ pc' = [pc EXCEPT ![r] = "up_query"]
          /\ UNCHANGED <<held, resp>>
     ELSE Respond(r, 400, "All fields are required")
  /\ UNCHANGED <<db, seqs, now, loc, tx>>

\* An update that also re-prices the invoice lines of the part.
UP_QueryReprices(r) ==
  /\ pc[r] = "up_query"
  /\ db' = [db EXCEPT
              !.parts = IF req[r].id \in DOMAIN @
                        THEN [@ EXCEPT ![req[r].id].selling_cost = req[r].selling_cost]
                        ELSE @,
              !.invoice_items =
                 [i \in 1..Len(@) |->
                    IF @[i].item_type = "part" /\ @[i].item_id = req[r].id
                    THEN [@[i] EXCEPT !.unit_price = req[r].selling_cost]
                    ELSE @[i]]]
  /\ tx' = tx
  /\ Respond(r, 200, "")
  /\ UNCHANGED <<seqs, now, req, loc>>

UP_Query(r) ==
  /\ pc[r] = "up_query"
  /\ PoolExec([k |-> "updPart", id |-> req[r].id,
               row |-> [purchasing_cost |-> req[r].purchasing_cost,
                        selling_cost |-> req[r].selling_cost]])
  /\ IF req[r].id \in DOMAIN db.parts
     THEN Respond(r, 200, "")
     ELSE Respond(r, 404, "Part not found")
  /\ UNCHANGED <<seqs, now, req, loc>>

(***************************************************************************)
(* DELETE /api/parts/:id                                                   *)
(***************************************************************************)
DP_Receive(r, rq) ==
  /\ pc[r] = "idle"
  /\ pc' = [pc EXCEPT ![r] = "dp_query"]
  /\ req' = [req EXCEPT ![r] = rq]
  /\ UNCHANGED <<db, seqs, now, loc, tx, held, resp>>

DP_Query(r) ==
  /\ pc[r] = "dp_query"
  /\ PoolExec([k |-> "delPart", id |-> req[r].id])
  /\ IF req[r].id \in DOMAIN db.parts
     THEN Respond(r, 204, "")
     ELSE Respond(r, 404, "Part not found")
  /\ UNCHANGED <<seqs, now, req, loc>>

DeletePart(r, Rqs) ==
  \/ \E rq \in Rqs : DP_Receive(r, rq)
  \/ DP_Query(r)

(***************************************************************************)
(* DELETE /api/invoices/:id                                                *)
(***************************************************************************)
DI_Connect(r, rq) ==
  /\ pc[r] = "idle"
  /\ pc' = [pc EXCEPT ![r] = "di_begin"]
  /\ req' = [req EXCEPT ![r] = rq]
  /\ held' = [held EXCEPT ![r] = TRUE]
  /\ UNCHANGED <<db, seqs, now, loc, tx, resp>>

DI_Begin(r) ==
  /\ pc[r] = "di_begin"
  /\ tx' = [tx EXCEPT ![r] = BeginTx(@)]
  /\ pc' = [pc EXCEPT ![r] = "di_items"]
  /\ UNCHANGED <<db, seqs, now, req, loc, held, resp>>

DI_DeleteItems(r) ==
  /\ pc[r] = "di_items"
  /\ Exec(r, [k |-> "delItems", id |-> req[r].id])
  /\ pc' = [pc EXCEPT ![r] = "di_invoice"]
  /\ UNCHANGED <<seqs, now, req, loc, held, resp>>

DI_DeleteInvoice(r) ==
  /\ pc[r] = "di_invoice"
  /\ loc' = [loc EXCEPT ![r] =
              [i |-> 0, rowCount |-> IF req[r].id \in DOMAIN View(r).invoices THEN 1 ELSE 0]]
  /\ Exec(r, [k |-> "delInvoice", id |-> req[r].id])
  /\ pc' = [pc EXCEPT ![r] = "di_commit"]
  /\ UNCHANGED <<seqs, now, req, held, resp>>

DI_Commit(r) ==
  /\ pc[r] = "di_commit"
  /\ db' = ApplyAll(db, tx[r].w)
  /\ tx' = [tx EXCEPT ![r] = NoTx]
  /\ IF loc[r].rowCount = 0
     THEN Respond(r, 404, "Invoice not found")
     ELSE Respond(r, 204, "")
  /\ UNCHANGED <<seqs, now, req, loc>>

DeleteInvoice(r, Rqs) ==
  \/ \E rq \in Rqs : DI_Connect(r, rq)
  \/ DI_Begin(r)
  \/ DI_DeleteItems(r)
  \/ DI_DeleteInvoice(r)
  \/ DI_Commit(r)

(***************************************************************************)
(* GET /api/invoices/:id/pdf: the amounts printed for a stored invoice     *)
(* row, in hundredths of a unit like the stored columns                    *)
(***************************************************************************)
\* Number(r.subtotal || 0)
subtotalRWF(inv) == inv.subtotal

\* Math.round(subtotalRWF * 0.18): the nearest whole unit, halves upwards.
taxRWF(inv) ==
  Exact(Scale * ((subtotalRWF(inv) * TaxPercent + (Scale * Scale) \div 2)
                   \div (Scale * Scale)))

\* subtotalRWF + taxRWF
totalRWF(inv) == Exact(subtotalRWF(inv) + taxRWF(inv).h)

(***************************************************************************)
(* PUT /api/vehicles/:id/exit                                              *)
(***************************************************************************)
\* A count that never finds an invoice missing.
InvoiceCountOne(d, vid) == 1

\* SELECT COUNT(*) FROM invoices WHERE vehicle_id = $1
InvoiceCount(d, vid) == Cardinality(InvoicesOfVehicle(d, vid))

\* SELECT COUNT(*) FROM vehicle_services WHERE vehicle_id = $1 AND status != 'completed'
IncompleteCount(d, vid) ==
  Len(SelectSeq(d.vehicle_services,
                LAMBDA vs : vs.vehicle_id = vid /\ vs.status # "completed"))

ServicesIncompleteMsg == "All services must be completed before exiting."
InvoiceMissingMsg == "Invoice must be generated before exiting."

EX_Receive(r, rq) ==
  /\ pc[r] = "idle"
  /\ pc' = [pc EXCEPT ![r] = "ex_services"]
  /\ req' = [req EXCEPT ![r] = rq]
  /\ UNCHANGED <<db, seqs, now, loc, tx, held, resp>>

EX_CountServices(r) ==
  /\ pc[r] = "ex_services"
  /\ IF IncompleteCount(db, req[r].id) > 0
     THEN Respond(r, 400, ServicesIncompleteMsg)
     ELSE /\ pc' = [pc EXCEPT ![r] = "ex_invoices"]
          /\ UNCHANGED <<held, resp>>
  /\ UNCHANGED <<db, seqs, now, req, loc, tx>>

EX_CountInvoices(r) ==
  /\ pc[r] = "ex_invoices"
  /\ IF InvoiceCount(db, req[r].id) = 0
     THEN Respond(r, 400, InvoiceMissingMsg)
     ELSE /\ pc' = [pc EXCEPT ![r] = "ex_update"]
          /\ UNCHANGED <<held, resp>>
  /\ UNCHANGED <<db, seqs, now, req, loc, tx>>

EX_Update(r) ==
  /\ pc[r] = "ex_update"
  /\ PoolExec([k |-> "setExit", id |-> req[r].id, at |-> now])
  /\ Respond(r, 200, "")
  /\ UNCHANGED <<seqs, now, req, loc>>

ExitVehicle(r, Rqs) ==
  \/ \E rq \in Rqs : EX_Receive(r, rq)
  \/ EX_CountServices(r)
  \/ EX_CountInvoices(r)
  \/ EX_Update(r)

(***************************************************************************)
(* PUT /api/vehicles/:vehicleId/services/:serviceId                        *)
(* (the completed_time column is written but never read; it is left out)   *)
(***************************************************************************)
US_Receive(r, rq) ==
  /\ pc[r] = "idle"
  /\ pc' = [pc EXCEPT ![r] = "us_query"]
  /\ req' = [req EXCEPT ![r] = rq]
  /\ UNCHANGED <<db, seqs, now, loc, tx, held, resp>>

US_Query(r) ==
  /\ pc[r] = "us_query"
  /\ PoolExec([k |-> "setStatus", vehicle_id |-> req[r].vehicleId,
               service_id |-> req[r].serviceId, status |-> req[r].status])
  /\ IF \E i \in 1..Len(db.vehicle_services) :
          /\ db.vehicle_services[i].vehicle_id = req[r].vehicleId
          /\ db.vehicle_services[i].service_id = req[r].serviceId
     THEN Respond(r, 200, "")
     ELSE Respond(r, 404, "Service record not found")
  /\ UNCHANGED <<seqs, now, req, loc>>

UpdateServiceStatus(r, Rqs) ==
  \/ \E rq \in Rqs : US_Receive(r, rq)
  \/ US_Query(r)

(***************************************************************************)
(* DELETE /api/vehicles/:id                                                *)
(* The route is registered twice (lines 578 and 986).  Express runs the    *)
(* handlers of a path in registration order and the first one always ends  *)
(* the response without calling next(), so every request is served by the  *)
(* first registration; the cascading handler at line 986 never runs.       *)
(***************************************************************************)
DV_Receive(r, rq) ==
  /\ pc[r] = "idle"
  /\ pc' = [pc EXCEPT ![r] = "dv_query"]
  /\ req' = [req EXCEPT ![r] = rq]
  /\ UNCHANGED <<db, seqs, now, loc, tx, held, resp>>

DV_Query(r) ==
  /\ pc[r] = "dv_query"
  /\ PoolExec([k |-> "delVehicle", id |-> req[r].id])
  /\ IF req[r].id \in DOMAIN db.vehicles
     THEN Respond(r, 204, "")
     ELSE Respond(r, 404, "Vehicle not found")
  /\ UNCHANGED <<seqs, now, req, loc>>

DeleteVehicle(r, Rqs) ==
  \/ \E rq \in Rqs : DV_Receive(r, rq)
  \/ DV_Query(r)

\* Time passes on the database server.
Tick ==
  /\ now < MaxTime
  /\ now' = now + 1
  /\ UNCHANGED <<db, seqs, pc, req, loc, tx, held, resp>>

(***************************************************************************)
(* POST /api/workers                                                       *)
(***************************************************************************)
NewWorkerValid(rq) == ~Falsy(rq.name)

CW_Receive(r, rq) ==
  /\ pc[r] = "idle"
  /\ seqs.workers < MaxWorkers
  /\ req' = [req EXCEPT ![r] = rq]
  /\ IF NewWorkerValid(rq)
     THEN /\ pc' = [pc EXCEPT ![r] = "cw_insert"]
          /\ UNCHANGED <<held, resp>>
     ELSE Respond(r, 400, "Name is required")
  /\ UNCHANGED <<db, seqs, now, loc, tx>>

CW_Insert(r) ==
  /\ pc[r] = "cw_insert"
  /\ LET id == seqs.workers + 1
     IN /\ seqs' = [seqs EXCEPT !.workers = id]
        /\ PoolExec([k |-> "insWorker", id |-> id])
  /\ Respond(r, 201, "")
  /\ UNCHANGED <<now, req, loc>>

CreateWorker(r, Rqs) ==
  \/ \E rq \in Rqs : CW_Receive(r, rq)
  \/ CW_Insert(r)

(***************************************************************************)
(* PUT /api/services/:id/assign-worker                                     *)
(***************************************************************************)
AW_Receive(r, rq) ==
  /\ pc[r] = "idle"
  /\ req' = [req EXCEPT ![r] = rq]
  /\ IF Falsy(rq.worker_id)
     THEN Respond(r, 400, "worker_id is required")
     ELSE /\ pc' = [pc EXCEPT ![r] = "aw_query"]
          /\ UNCHANGED <<held, resp>>
  /\ UNCHANGED <<db, seqs, now, loc, tx>>

AW_Query(r) ==
  /\ pc[r] = "aw_query"
  /\ PoolExec([k |-> "setWorker", ids |-> {req[r].id} \cap DOMAIN db.services,
               worker_id |-> req[r].worker_id])
  /\ IF req[r].id \in DOMAIN db.services
     THEN Respond(r, 200, "")
     ELSE Respond(r, 404, "Service not found")
  /\ UNCHANGED <<seqs, now, req, loc>>

AssignWorker(r, Rqs) ==
  \/ \E rq \in Rqs : AW_Receive(r, rq)
  \/ AW_Query(r)

(***************************************************************************)
(* POST /api/workers/:id/payments                                          *)
(* (method, notes and payment_date are stored as given and left out)       *)
(***************************************************************************)
\* !amount || isNaN(Number(amount)) for the numeric amounts sent here.
PaymentValid(rq) == ~Falsy(rq.amount)

AP_Connect(r, rq) ==
  /\ pc[r] = "idle"
  /\ seqs.worker_payments < MaxPayments
  /\ pc' = [pc EXCEPT ![r] = "ap_insert"]
  /\ req' = [req EXCEPT ![r] = rq]
  /\ held' = [held EXCEPT ![r] = TRUE]
  /\ UNCHANGED <<db, seqs, now, loc, tx, resp>>

AP_Insert(r) ==
  /\ pc[r] = "ap_insert"
  /\ IF PaymentValid(req[r])
     THEN LET id == seqs.worker_payments + 1
          IN /\ seqs' = [seqs EXCEPT !.worker_payments = id]
             /\ Exec(r, [k |-> "insPayment", id |-> id,
                         row |-> [worker_id |-> req[r].id, amount |-> req[r].amount]])
             /\ Respond(r, 201, "")
     ELSE /\ Respond(r, 400, "Invalid amount")
          /\ UNCHANGED <<db, seqs, tx>>
  /\ UNCHANGED <<now, req, loc>>

AddPayment(r, Rqs) ==
  \/ \E rq \in Rqs : AP_Connect(r, rq)
  \/ AP_Insert(r)

(***************************************************************************)
(* DELETE /api/workers/:id                                                 *)
(***************************************************************************)
\* An unassignment that matches no row.
ServicesOfWorkerNone(d, w) == {}

\* The rows of UPDATE services ... WHERE worker_id = $1
ServicesOfWorker(d, w) == {sv \in DOMAIN d.services : d.services[sv].worker_id = w}

\* The rows of DELETE FROM worker_payments WHERE worker_id = $1
PaymentsOfWorker(d, w) ==
  {p \in DOMAIN d.worker_payments : d.worker_payments[p].worker_id = w}

DW_Connect(r, rq) ==
  /\ pc[r] = "idle"
  /\ pc' = [pc EXCEPT ![r] = "dw_begin"]
  /\ req' = [req EXCEPT ![r] = rq]
  /\ held' = [held EXCEPT ![r] = TRUE]
  /\ UNCHANGED <<db, seqs, now, loc, tx, resp>>

DW_Begin(r) ==
  /\ pc[r] = "dw_begin"
  /\ tx' = [tx EXCEPT ![r] = BeginTx(@)]
  /\ pc' = [pc EXCEPT ![r] = "dw_unassign"]
  /\ UNCHANGED <<db, seqs, now, req, loc, held, resp>>

DW_Unassign(r) ==
  /\ pc[r] = "dw_unassign"
  /\ Exec(r, [k |-> "setWorker", ids |-> ServicesOfWorker(View(r), req[r].id),
              worker_id |-> NULL])
  /\ pc' = [pc EXCEPT ![r] = "dw_payments"]
  /\ UNCHANGED <<seqs, now, req, loc, held, resp>>

DW_DeletePayments(r) ==
  /\ pc[r] = "dw_payments"
  /\ Exec(r, [k |-> "delPayments", ids |-> PaymentsOfWorker(View(r), req[r].id)])
  /\ pc' = [pc EXCEPT ![r] = "dw_worker"]
  /\ UNCHANGED <<seqs, now, req, loc, held, resp>>

DW_DeleteWorker(r) ==
  /\ pc[r] = "dw_worker"
  /\ loc' = [loc EXCEPT ![r] =
              [i |-> 0, rowCount |-> IF req[r].id \in View(r).workers THEN 1 ELSE 0]]
  /\ Exec(r, [k |-> "delWorker", id |-> req[r].id])
  /\ pc' = [pc EXCEPT ![r] = "dw_commit"]
  /\ UNCHANGED <<seqs, now, req, held, resp>>

DW_Commit(r) ==
  /\ pc[r] = "dw_commit"
  /\ db' = ApplyAll(db, tx[r].w)
  /\ tx' = [tx EXCEPT ![r] = NoTx]
  /\ IF loc[r].rowCount = 0
     THEN Respond(r, 404, "Worker not found")
     ELSE Respond(r, 204, "")
  /\ UNCHANGED <<seqs, now, req, loc>>

DeleteWorker(r, Rqs) ==
  \/ \E rq \in Rqs : DW_Connect(r, rq)
  \/ DW_Begin(r)
  \/ DW_Unassign(r)
  \/ DW_DeletePayments(r)
  \/ DW_DeleteWorker(r)
  \/ DW_Commit(r)

(***************************************************************************)
(* POST /api/vehicles and PUT /api/vehicles/:id                            *)
(* (plate stands for the descriptive columns plate, make, model_name,      *)
(* year and vin, which the statements treat alike)                         *)
(***************************************************************************)
VehicleValid(rq) == ~(Falsy(rq.plate) \/ Falsy(rq.owner) \/ Falsy(rq.contact_number))

VehiclePartRow(vid, part) ==
  [vehicle_id |-> vid, part_id |-> part.part_id, quantity |-> part.quantity]

VehicleServicePartRow(vid, sp) ==
  [vehicle_id |-> vid, service_id |-> sp.service_id, part_id |-> sp.part_id,
   quantity |-> sp.quantity]

\* A handler that leaves out the service_parts loop.
NextStageNoServiceParts(rq, n, prefix) ==
  IF n <= 1 /\ rq.op = "createVehicle" /\ IsArray(rq, "service_ids")
     /\ Len(rq.service_ids) > 0
  THEN prefix \o "_service"
  ELSE IF n <= 2 /\ IsArray(rq, "standalone_parts") /\ Len(rq.standalone_parts) > 0
  THEN prefix \o "_part"
  ELSE prefix \o "_commit"

\* The next loop of the handler with something to insert, from stage n on
\* (1: service_ids, 2: standalone_parts, 3: service_parts); else COMMIT.
NextStage(rq, n, prefix) ==
  IF n <= 1 /\ rq.op = "createVehicle" /\ IsArray(rq, "service_ids")
     /\ Len(rq.service_ids) > 0
  THEN prefix \o "_service"
  ELSE IF n <= 2 /\ IsArray(rq, "standalone_parts") /\ Len(rq.standalone_parts) > 0
  THEN prefix \o "_part"
  ELSE IF n <= 3 /\ IsArray(rq, "service_parts") /\ Len(rq.service_parts) > 0
  THEN prefix \o "_spart"
  ELSE prefix \o "_commit"

CV_Connect(r, rq) ==
  /\ pc[r] = "idle"
  /\ seqs.vehicles < MaxVehicles
  /\ pc' = [pc EXCEPT ![r] = "cv_begin"]
  /\ req' = [req EXCEPT ![r] = rq]
  /\ held' = [held EXCEPT ![r] = TRUE]
  /\ UNCHANGED <<db, seqs, now, loc, tx, resp>>

CV_Begin(r) ==
  /\ pc[r] = "cv_begin"
  /\ IF VehicleValid(req[r])
     THEN /\ tx' = [tx EXCEPT ![r] = BeginTx(@)]
          /\ pc' = [pc EXCEPT ![r] = "cv_vehicle"]
          /\ UNCHANGED <<held, resp>>
     ELSE /\ Respond(r, 400, "Plate, owner, and contact number are required")
          /\ tx' = tx
  /\ UNCHANGED <<db, seqs, now, req, loc>>

CV_InsertVehicle(r) ==
  /\ pc[r] = "cv_vehicle"
  /\ LET id == seqs.vehicles + 1
     IN /\ seqs' = [seqs EXCEPT !.vehicles = id]
        /\ Exec(r, [k |-> "insVehicle", id |-> id,
                    row |-> [plate |-> req[r].plate, owner |-> req[r].owner,
                             contact_number |-> req[r].contact_number,
                             entry_time |-> now, exit_time |-> NULL]])
        /\ loc' = [loc EXCEPT ![r] = [i |-> 1, vehicleId |-> id]]
  /\ pc' = [pc EXCEPT ![r] = NextStage(req[r], 1, "cv")]
  /\ UNCHANGED <<now, req, held, resp>>

CV_InsertService(r) ==
  /\ pc[r] = "cv_service"
  /\ LET last == loc[r].i = Len(req[r].service_ids)
     IN /\ Exec(r, [k |-> "insVS",
                    row |-> [vehicle_id |-> loc[r].vehicleId,
                             service_id |-> req[r].service_ids[loc[r].i],
                             status |-> "pending"]])
        /\ loc' = [loc EXCEPT ![r].i = IF last THEN 1 ELSE @ + 1]
        /\ pc' = [pc EXCEPT ![r] = IF last THEN NextStage(req[r], 2, "cv") ELSE @]
  /\ UNCHANGED <<seqs, now, req, held, resp>>

CV_InsertPart(r) ==
  /\ pc[r] = "cv_part"
  /\ LET last == loc[r].i = Len(req[r].standalone_parts)
     IN /\ Exec(r, [k |-> "insVP",
                    row |-> VehiclePartRow(loc[r].vehicleId,
                                           req[r].standalone_parts[loc[r].i])])
        /\ loc' = [loc EXCEPT ![r].i = IF last THEN 1 ELSE @ + 1]
        /\ pc' = [pc EXCEPT ![r] = IF last THEN NextStage(req[r], 3, "cv") ELSE @]
  /\ UNCHANGED <<seqs, now, req, held, resp>>

CV_InsertServicePart(r) ==
  /\ pc[r] = "cv_spart"
  /\ LET last == loc[r].i = Len(req[r].service_parts)
     IN /\ Exec(r, [k |-> "insVSP",
                    row |-> VehicleServicePartRow(loc[r].vehicleId,
                                                  req[r].service_parts[loc[r].i])])
        /\ loc' = [loc EXCEPT ![r].i = IF last THEN 1 ELSE @ + 1]
        /\ pc' = [pc EXCEPT ![r] = IF last THEN "cv_commit" ELSE @]
  /\ UNCHANGED <<seqs, now, req, held, resp>>

CV_Commit(r) ==
  /\ pc[r] = "cv_commit"
  /\ db' = ApplyAll(db, tx[r].w)
  /\ tx' = [tx EXCEPT ![r] = NoTx]
  /\ Respond(r, 201, "")
  /\ UNCHANGED <<seqs, now, req, loc>>

CreateVehicle(r, Rqs) ==
  \/ \E rq \in Rqs : CV_Connect(r, rq)
  \/ CV_Begin(r)
  \/ CV_InsertVehicle(r)
  \/ CV_InsertService(r)
  \/ CV_InsertPart(r)
  \/ CV_InsertServicePart(r)
  \/ CV_Commit(r)

\* An update that forgets to delete the rows it replaces.
DeleteOfNothing(table, vid) == [k |-> "none"]

\* DELETE FROM vehicle_parts / vehicle_service_parts WHERE vehicle_id = $1
DeleteOf(table, vid) ==
  [k |-> IF table = "vehicle_parts" THEN "delVP" ELSE "delVSP", vehicle_id |-> vid]

UV_Connect(r, rq) ==
  /\ pc[r] = "idle"
  /\ pc' = [pc EXCEPT ![r] = "uv_begin"]
  /\ req' = [req EXCEPT ![r] = rq]
  /\ held' = [held EXCEPT ![r] = TRUE]
  /\ UNCHANGED <<db, seqs, now, loc, tx, resp>>

UV_Begin(r) ==
  /\ pc[r] = "uv_begin"
  /\ IF VehicleValid(req[r])
     THEN /\ tx' = [tx EXCEPT ![r] = BeginTx(@)]
          /\ pc' = [pc EXCEPT ![r] = "uv_vehicle"]
          /\ UNCHANGED <<held, resp>>
     ELSE /\ Respond(r, 400, "Plate, owner, and contact number are required")
          /\ tx' = tx
  /\ UNCHANGED <<db, seqs, now, req, loc>>

UV_UpdateVehicle(r) ==
  /\ pc[r] = "uv_vehicle"
  /\ Exec(r, [k |-> "updVehicle", id |-> req[r].id, plate |-> req[r].plate,
              owner |-> req[r].owner, contact_number |-> req[r].contact_number])
  /\ loc' = [loc EXCEPT ![r] = [i |-> 1, vehicleId |-> req[r].id]]
  /\ pc' = [pc EXCEPT ![r] = IF req[r].id \in DOMAIN View(r).vehicles
                             THEN "uv_del_parts" ELSE "uv_notfound"]
  /\ UNCHANGED <<seqs, now, req, held, resp>>

\* vehicleRows.length === 0: ROLLBACK, 404.
UV_NotFound(r) ==
  /\ pc[r] = "uv_notfound"
  /\ tx' = [tx EXCEPT ![r] = NoTx]
  /\ Respond(r, 404, "Vehicle not found")
  /\ UNCHANGED <<db, seqs, now, req, loc>>

UV_DeleteParts(r) ==
  /\ pc[r] = "uv_del_parts"
  /\ Exec(r, DeleteOf("vehicle_parts", req[r].id))
  /\ pc' = [pc EXCEPT ![r] =
              IF IsArray(req[r], "standalone_parts") /\ Len(req[r].standalone_parts) > 0
              THEN "uv_part" ELSE "uv_del_sparts"]
  /\ UNCHANGED <<seqs, now, req, loc, held, resp>>

UV_InsertPart(r) ==
  /\ pc[r] = "uv_part"
  /\ LET last == loc[r].i = Len(req[r].standalone_parts)
     IN /\ Exec(r, [k |-> "insVP",
                    row |-> VehiclePartRow(req[r].id, req[r].standalone_parts[loc[r].i])])
        /\ loc' = [loc EXCEPT ![r].i = IF last THEN 1 ELSE @ + 1]
        /\ pc' = [pc EXCEPT ![r] = IF last THEN "uv_del_sparts" ELSE @]
  /\ UNCHANGED <<seqs, now, req, held, resp>>

UV_DeleteServiceParts(r) ==
  /\ pc[r] = "uv_del_sparts"
  /\ Exec(r, DeleteOf("vehicle_service_parts", req[r].id))
  /\ pc' = [pc EXCEPT ![r] = NextStage(req[r], 3, "uv")]
  /\ UNCHANGED <<seqs, now, req, loc, held, resp>>

UV_InsertServicePart(r) ==
  /\ pc[r] = "uv_spart"
  /\ LET last == loc[r].i = Len(req[r].service_parts)
     IN /\ Exec(r, [k |-> "insVSP",
                    row |-> VehicleServicePartRow(req[r].id,
                                                  req[r].service_parts[loc[r].i])])
        /\ loc' = [loc EXCEPT ![r].i = IF last THEN 1 ELSE @ + 1]
        /\ pc' = [pc EXCEPT ![r] = IF last THEN "uv_commit" ELSE @]
  /\ UNCHANGED <<seqs, now, req, held, resp>>

UV_Commit(r) ==
  /\ pc[r] = "uv_commit"
  /\ db' = ApplyAll(db, tx[r].w)
  /\ tx' = [tx EXCEPT ![r] = NoTx]
  /\ Respond(r, 200, "")
  /\ UNCHANGED <<seqs, now, req, loc>>

UpdateVehicle(r, Rqs) ==
  \/ \E rq \in Rqs : UV_Connect(r, rq)
  \/ UV_Begin(r)
  \/ UV_UpdateVehicle(r)
  \/ UV_NotFound(r)
  \/ UV_DeleteParts(r)
  \/ UV_InsertPart(r)
  \/ UV_DeleteServiceParts(r)
  \/ UV_InsertServicePart(r)
  \/ UV_Commit(r)

(***************************************************************************)
(* Failure paths shared by the transactional handlers                      *)
(***************************************************************************)
\* Positions at an awaited client.query inside the try block.
TxLabels == {"ci_insert", "ci_service", "ci_part_select", "ci_part_insert",
             "ci_totals", "ci_commit",
             "di_items", "di_invoice", "di_commit",
             "dw_unassign", "dw_payments", "dw_worker", "dw_commit",
             "cv_vehicle", "cv_service", "cv_part", "cv_spart", "cv_commit",
             "uv_vehicle", "uv_notfound", "uv_del_parts", "uv_part", "uv_del_sparts",
             "uv_spart", "uv_commit"}

\* The error text of each handler's catch block.
ServerErrorMsg(op) ==
  CASE op = "createInvoice" -> "Server error generating invoice"
    [] op = "deleteInvoice" -> "Server error deleting invoice"
    [] op = "assignWorker" -> "Failed to assign worker"
    [] OTHER -> "Server error"

\* Positions at an awaited BEGIN, reached once the request has passed validation.
AtBegin(r) ==
  \/ pc[r] \in {"di_begin", "dw_begin"}
  \/ pc[r] = "ci_begin" /\ InvoiceValid(req[r])
  \/ pc[r] \in {"cv_begin", "uv_begin"} /\ VehicleValid(req[r])

\* The awaited statement rejects (a storage failure): control enters catch,
\* where the locals of the try block are out of scope.
Throw(r) ==
  /\ pc[r] \in TxLabels \/ AtBegin(r)
  /\ pc' = [pc EXCEPT ![r] = "catch"]
  /\ loc' = [loc EXCEPT ![r] = NoLoc]
  /\ UNCHANGED <<db, seqs, now, req, tx, held, resp>>

\* Positions at an awaited pool.query inside a try block without a transaction.
PoolLabels == {"up_query", "ex_services", "ex_invoices", "ex_update", "us_query",
               "dv_query", "aw_query", "dp_query", "cp_insert", "cw_insert"}

\* The awaited pool.query rejects: catch sends the 500 response.
PoolThrow(r) ==
  /\ pc[r] \in PoolLabels \/ (pc[r] = "ap_insert" /\ PaymentValid(req[r]))
  /\ Respond(r, 500, ServerErrorMsg(req[r].op))
  /\ loc' = [loc EXCEPT ![r] = NoLoc]
  /\ UNCHANGED <<db, seqs, now, req, tx>>

\* A catch block that answers without issuing ROLLBACK.
RollbackMissing(r) ==
  /\ pc[r] = "catch"
  /\ Respond(r, 500, ServerErrorMsg(req[r].op))
  /\ loc' = [loc EXCEPT ![r] = NoLoc]
  /\ UNCHANGED <<db, seqs, now, req, tx>>

\* catch: ROLLBACK, the 500 response, then finally.
Rollback(r) ==
  /\ pc[r] = "catch"
  /\ tx' = [tx EXCEPT ![r] = NoTx]
  /\ Respond(r, 500, ServerErrorMsg(req[r].op))
  /\ loc' = [loc EXCEPT ![r] = NoLoc]
  /\ UNCHANGED <<db, seqs, now, req>>

\* A catch block that releases the client only after a ROLLBACK that worked.
RollbackFailsLeaks(r) ==
  /\ pc[r] = "catch"
  /\ tx' = [tx EXCEPT ![r] = NoTx]
  /\ pc' = [pc EXCEPT ![r] = "done"]
  /\ loc' = [loc EXCEPT ![r] = NoLoc]
  /\ UNCHANGED <<db, seqs, now, req, held, resp>>

\* The promise returned by slot r's async handler rejects and nothing
\* observes it (Express does not await a handler).  What the runtime does
\* with an unhandled rejection depends on the Node version and its
\* --unhandled-rejections mode, which the repository does not fix: either it
\* only warns and slot r is finished without a response, or the process
\* exits: every handler stops where it is, nothing more is answered and the
\* database server discards the transactions of the closed connections.
Unhandled(r) ==
  \/ /\ pc' = [pc EXCEPT ![r] = "done"]
     /\ tx' = [tx EXCEPT ![r] = NoTx]
     /\ loc' = [loc EXCEPT ![r] = NoLoc]
  \/ /\ pc' = [q \in Clients |-> "exited"]
     /\ tx' = [q \in Clients |-> NoTx]
     /\ loc' = [q \in Clients |-> NoLoc]

\* catch: the ROLLBACK itself rejects because the connection is lost.  The
\* server discards the transaction; finally releases the client and the
\* handler's promise rejects, so no response is sent.
RollbackFails(r) ==
  /\ pc[r] = "catch"
  /\ held' = [held EXCEPT ![r] = FALSE]
  /\ Unhandled(r)
  /\ UNCHANGED <<db, seqs, now, req, resp>>

\* The handlers whose first statement is `await pool.connect()`, outside try.
ConnectOps ==
  {"createInvoice", "deleteInvoice", "createVehicle", "updateVehicle", "deleteWorker",
   "addPayment"}

\* pool.connect() rejects: the handler's promise rejects before try is
\* entered, no client is held and no response is sent.
ConnectFails(r, rq) ==
  /\ pc[r] = "idle"
  /\ rq.op \in ConnectOps
  /\ req' = [req EXCEPT ![r] = rq]
  /\ Unhandled(r)
  /\ UNCHANGED <<db, seqs, now, held, resp>>

\* The response has been delivered; the slot is free for the next request.
Return(r) ==
  /\ pc[r] = "done"
  /\ pc' = [pc EXCEPT ![r] = "idle"]
  /\ req' = [req EXCEPT ![r] = NoReq]
  /\ loc' = [loc EXCEPT ![r] = NoLoc]
  /\ resp' = [resp EXCEPT ![r] = NoResp]
  /\ UNCHANGED <<db, seqs, now, tx, held>>

(***************************************************************************)
(* Initial state and the sequential invoicing specification                *)
(***************************************************************************)
InitParts == (1 :> [purchasing_cost |-> 600, selling_cost |-> 1000]) @@
             (2 :> [purchasing_cost |-> 700, selling_cost |-> 1025])

EmptyFn == [x \in {} |-> 0]

InitVehicles ==
  1 :> [plate |-> 7, owner |-> 1, contact_number |-> 1, entry_time |-> 1, exit_time |-> NULL]

InitVehicleServices ==
  << [vehicle_id |-> 1, service_id |-> 1, status |-> "pending"],
     [vehicle_id |-> 1, service_id |-> 2, status |-> "pending"] >>

InitServices == (1 :> [worker_id |-> NULL]) @@ (2 :> [worker_id |-> NULL])

InitDb == [parts |-> InitParts,
           workers |-> {1, 2},
           services |-> InitServices,
           worker_payments |-> EmptyFn,
           vehicles |-> InitVehicles,
           vehicle_services |-> InitVehicleServices,
           vehicle_parts |-> <<[vehicle_id |-> 1, part_id |-> 2, quantity |-> 1]>>,
           vehicle_service_parts |-> <<>>,
           invoices |-> EmptyFn,
           invoice_items |-> <<>>]

Init ==
  /\ db = InitDb
  /\ seqs = [invoices |-> 0, worker_payments |-> 0, vehicles |-> 1, parts |-> 2,
             workers |-> 2]
  /\ now = 1
  /\ pc = [r \in Clients |-> "idle"]
  /\ req = [r \in Clients |-> NoReq]
  /\ loc = [r \in Clients |-> NoLoc]
  /\ tx = [r \in Clients |-> NoTx]
  /\ held = [r \in Clients |-> FALSE]
  /\ resp = [r \in Clients |-> NoResp]

IdRequests(op, ids) == { [op |-> op, id |-> i] : i \in ids }

Svc(id, price) == [id |-> id, unit_price |-> price]
Prt(id, q) == [id |-> id, quantity |-> q]

\* Line selections: (services, parts, omitted lists).  Part 3 exists only
\* once create-part has added it.
InvoiceLines ==
  { <<<<>>, <<>>, {"services", "parts"}>>,
    <<<<>>, <<>>, {}>>,
    <<<<Svc(1, 3000)>>, <<Prt(1, 2)>>, {}>>,
    <<<<Svc(2, 3001)>>, <<>>, {}>>,
    <<<<Svc(1, 3000), Svc(2, 3001)>>, <<Prt(2, 1)>>, {}>>,
    <<<<Svc(1, 3000)>>, <<Prt(1, 1), Prt(3, 1)>>, {}>>,
    <<<<>>, <<Prt(3, 1)>>, {"services"}>> }

\* Stays: absent, zero, one day and the longest stay.
InvoiceRequests ==
  { [op |-> "createInvoice", vehicle_id |-> v, days_in_garage |-> d,
     services |-> l[1], parts |-> l[2], omitted |-> l[3]] :
      v \in {MISSING, 1}, d \in {MISSING, 0, 1, MaxDays}, l \in InvoiceLines }

CreateInvoice(r, Rqs) ==
  \/ \E rq \in Rqs : CI_Connect(r, rq)
  \/ CI_Begin(r)
  \/ CI_InsertInvoice(r)
  \/ CI_InsertService(r)
  \/ CI_SelectPart(r)
  \/ CI_InsertPart(r)
  \/ CI_UpdateTotals(r)
  \/ CI_Commit(r)

PartRequests ==
  { [op |-> "updatePart", id |-> i, purchasing_cost |-> 600, selling_cost |-> c] :
      i \in {1, MaxParts + 1}, c \in {MISSING, 1000, 1200} }

UpdatePart(r) ==
  \/ \E rq \in PartRequests : UP_Receive(r, rq)
  \/ UP_Query(r)

NewPartRequests ==
  { [op |-> "createPart", name |-> n, part_number |-> 1, purchasing_cost |-> 100,
     selling_cost |-> 150] : n \in {MISSING, 1} }

Next ==
  \E r \in SeqClients :
    \/ CreateInvoice(r, InvoiceRequests)
    \/ CreatePart(r, NewPartRequests)
    \/ DeleteInvoice(r, IdRequests("deleteInvoice", {1, 2}))
    \/ UpdatePart(r)
    \/ Throw(r)
    \/ PoolThrow(r)
    \/ Rollback(r)
    \/ Return(r)

Spec == Init /\ [][Next]_vars

(***************************************************************************)
(* The vehicle's stay: invoicing, service progress, exit, deletion         *)
(***************************************************************************)
StayInvoiceRequests ==
  { [op |-> "createInvoice", vehicle_id |-> v, days_in_garage |-> 2,
     services |-> <<Svc(1, 3000)>>, parts |-> <<Prt(1, 2)>>, omitted |-> {}] :
      v \in {1, 2} }

StatusRequests ==
  { [op |-> "updateServiceStatus", vehicleId |-> 1, serviceId |-> sv, status |-> st] :
      sv \in {1, 2, 3}, st \in {"pending", "completed"} }

NextStay ==
  \/ \E r \in SeqClients :
        \/ CreateInvoice(r, StayInvoiceRequests)
        \/ DeleteInvoice(r, IdRequests("deleteInvoice", {1, 2}))
        \/ ExitVehicle(r, IdRequests("exitVehicle", {1, 2}))
        \/ UpdateServiceStatus(r, StatusRequests)
        \/ DeleteVehicle(r, IdRequests("deleteVehicle", {1, 2}))
        \/ Throw(r)
        \/ PoolThrow(r)
        \/ Rollback(r)
        \/ Return(r)
  \/ Tick

SpecStay == Init /\ [][NextStay]_vars

(***************************************************************************)
(* Workers: creation, assignment, payments, deletion.  Service 3 does not  *)
(* exist; worker 3 exists only once create-worker has added it.            *)
(***************************************************************************)
AssignRequests ==
  { [op |-> "assignWorker", id |-> sv, worker_id |-> w] :
      sv \in {1, 2, 3}, w \in {MISSING, 1, 2} }

PaymentRequests ==
  { [op |-> "addPayment", id |-> w, amount |-> a] : w \in {1, 2}, a \in {MISSING, 50} }

NewWorkerRequests == { [op |-> "createWorker", name |-> n] : n \in {MISSING, 1} }

NextWorker ==
  \E r \in SeqClients :
    \/ CreateWorker(r, NewWorkerRequests)
    \/ AssignWorker(r, AssignRequests)
    \/ AddPayment(r, PaymentRequests)
    \/ DeleteWorker(r, IdRequests("deleteWorker", {1, 2, 3}))
    \/ Throw(r)
    \/ PoolThrow(r)
    \/ Rollback(r)
    \/ Return(r)

SpecWorker == Init /\ [][NextWorker]_vars

(***************************************************************************)
(* Vehicles: creation and update.  Vehicle 3 does not exist.               *)
(***************************************************************************)
VP(p, q) == [part_id |-> p, quantity |-> q]
VSP(sv, p, q) == [service_id |-> sv, part_id |-> p, quantity |-> q]

\* (plate, owner, contact_number)
VehicleFields == { <<8, 1, 1>>, <<MISSING, 1, 1>>, <<8, MISSING, 1>>, <<8, 1, MISSING>> }

\* (standalone_parts, service_parts, omitted lists)
VehicleLists ==
  { <<<<>>, <<>>, {"standalone_parts", "service_parts"}>>,
    <<<<>>, <<VSP(1, 1, 1)>>, {}>>,
    <<<<VP(1, 1)>>, <<>>, {}>>,
    <<<<VP(1, 2), VP(2, 1)>>, <<VSP(2, 2, 1), VSP(2, 1, 2)>>, {}>> }

UpdateVehicleRequests ==
  { [op |-> "updateVehicle", id |-> v, plate |-> f[1], owner |-> f[2],
     contact_number |-> f[3], standalone_parts |-> l[1], service_parts |-> l[2],
     omitted |-> l[3]] :
      v \in {1, 2, 3}, f \in VehicleFields, l \in VehicleLists }

CreateVehicleRequests ==
  { [op |-> "createVehicle", plate |-> f[1], owner |-> f[2], contact_number |-> f[3],
     service_ids |-> sv, standalone_parts |-> l[1], service_parts |-> l[2],
     omitted |-> l[3]] :
      f \in {<<9, 1, 1>>, <<MISSING, 1, 1>>}, sv \in {<<>>, <<1, 2>>},
      l \in { <<<<>>, <<>>, {"standalone_parts", "service_parts"}>>,
               <<<<VP(1, 1)>>, <<VSP(1, 1, 1)>>, {}>> } }

NextVehicle ==
  \E r \in SeqClients :
    \/ CreateVehicle(r, CreateVehicleRequests)
    \/ UpdateVehicle(r, UpdateVehicleRequests)
    \/ Throw(r)
    \/ Rollback(r)
    \/ Return(r)

SpecVehicle == Init /\ [][NextVehicle]_vars

(***************************************************************************)
(* Everything that happens around a committed invoice                      *)
(***************************************************************************)
FramePartRequests ==
  { [op |-> "updatePart", id |-> 1, purchasing_cost |-> 600, selling_cost |-> 1200] }

FrameVehicleRequests ==
  { [op |-> "updateVehicle", id |-> 1, plate |-> 8, owner |-> 1, contact_number |-> 1,
     standalone_parts |-> <<VP(1, 1)>>, service_parts |-> <<VSP(1, 1, 1)>>,
     omitted |-> {}] }

FrameStatusRequests ==
  { [op |-> "updateServiceStatus", vehicleId |-> 1, serviceId |-> sv,
     status |-> "completed"] : sv \in {1, 2} }

NextFrame ==
  \E r \in SeqClients :
    \/ CreateInvoice(r, StayInvoiceRequests)
    \/ \E rq \in FramePartRequests : UP_Receive(r, rq)
    \/ UP_Query(r)
    \/ CreatePart(r, NewPartRequests)
    \/ DeletePart(r, IdRequests("deletePart", {1}))
    \/ UpdateVehicle(r, FrameVehicleRequests)
    \/ UpdateServiceStatus(r, FrameStatusRequests)
    \/ ExitVehicle(r, IdRequests("exitVehicle", {1}))
    \/ DeleteInvoice(r, IdRequests("deleteInvoice", {1}))
    \/ DeleteVehicle(r, IdRequests("deleteVehicle", {1}))
    \/ Throw(r)
    \/ PoolThrow(r)
    \/ Rollback(r)
    \/ Return(r)

SpecFrame == Init /\ [][NextFrame]_vars

(***************************************************************************)
(* An exit request handled while another request works on the same vehicle *)
(***************************************************************************)
ExitRaceInvoiceRequests ==
  { [op |-> "createInvoice", vehicle_id |-> 1, days_in_garage |-> 1,
     services |-> <<Svc(1, 3000)>>, parts |-> <<Prt(1, 1)>>, omitted |-> {}] }

ExitRaceStatusRequests ==
  { [op |-> "updateServiceStatus", vehicleId |-> 1, serviceId |-> sv, status |-> st] :
      sv \in {1, 2}, st \in {"pending", "completed"} }

NextExitRace ==
  \/ ExitVehicle(1, IdRequests("exitVehicle", {1}))
  \/ UpdateServiceStatus(2, ExitRaceStatusRequests)
  \/ CreateInvoice(2, ExitRaceInvoiceRequests)
  \/ DeleteInvoice(2, IdRequests("deleteInvoice", {1}))
  \/ \E r \in Clients :
        \/ Throw(r)
        \/ PoolThrow(r)
        \/ Rollback(r)
        \/ Return(r)

SpecExitRace == Init /\ [][NextExitRace]_vars

(***************************************************************************)
(* Every handler that takes a pooled client, with every failure            *)
(***************************************************************************)
PoolVehicleRequests ==
  { [op |-> "updateVehicle", id |-> v, plate |-> f, owner |-> 1, contact_number |-> 1,
     standalone_parts |-> <<VP(1, 1)>>, service_parts |-> <<VSP(1, 1, 1)>>,
     omitted |-> {}] : v \in {1, MaxVehicles + 1}, f \in {8, MISSING} }

PoolCreateVehicleRequests ==
  { [op |-> "createVehicle", plate |-> f, owner |-> 1, contact_number |-> 1,
     service_ids |-> <<1>>, standalone_parts |-> <<VP(1, 1)>>,
     service_parts |-> <<VSP(1, 1, 1)>>, omitted |-> {}] : f \in {9, MISSING} }

PoolInvoiceRequests ==
  { [op |-> "createInvoice", vehicle_id |-> 1, days_in_garage |-> d,
     services |-> <<Svc(1, 3000)>>, parts |-> <<Prt(p, 1)>>, omitted |-> {}] :
      d \in {MISSING, 1}, p \in {1, 3} }

PoolRequests ==
  PoolVehicleRequests \cup PoolCreateVehicleRequests \cup PoolInvoiceRequests
    \cup IdRequests("deleteInvoice", {1}) \cup IdRequests("deleteWorker", {1, 3})
    \cup { [op |-> "addPayment", id |-> 1, amount |-> a] : a \in {MISSING, 50} }

NextPool ==
  \E r \in SeqClients :
    \/ CreateInvoice(r, PoolInvoiceRequests)
    \/ DeleteInvoice(r, IdRequests("deleteInvoice", {1}))
    \/ CreateVehicle(r, PoolCreateVehicleRequests)
    \/ UpdateVehicle(r, PoolVehicleRequests)
    \/ DeleteWorker(r, IdRequests("deleteWorker", {1, 3}))
    \/ AddPayment(r, {rq \in PoolRequests : rq.op = "addPayment"})
    \/ DeleteVehicle(r, IdRequests("deleteVehicle", {1}))
    \/ \E rq \in PoolRequests : ConnectFails(r, rq)
    \/ Throw(r)
    \/ PoolThrow(r)
    \/ Rollback(r)
    \/ RollbackFails(r)
    \/ Return(r)

SpecPool == Init /\ [][NextPool]_vars

(***************************************************************************)
(* Two requests handled at once: the handlers' statements interleave       *)
(***************************************************************************)
ConcInvoiceRequests ==
  { [op |-> "createInvoice", vehicle_id |-> 1, days_in_garage |-> 1,
     services |-> <<Svc(1, 3000)>>, parts |-> <<Prt(1, 1)>>, omitted |-> {}] }

ConcVehicleLists ==
  { <<<<VP(1, 1)>>, <<VSP(1, 1, 1)>>, {}>>,
    <<<<VP(1, 2), VP(2, 1)>>, <<VSP(2, 2, 1), VSP(2, 1, 2)>>, {}>> }

ConcUpdateVehicleRequests ==
  { [op |-> "updateVehicle", id |-> v, plate |-> 7, owner |-> 1, contact_number |-> 1,
     standalone_parts |-> l[1], service_parts |-> l[2], omitted |-> l[3]] :
      v \in {1, MaxVehicles + 2}, l \in ConcVehicleLists }

ConcCreateVehicleRequests ==
  { [op |-> "createVehicle", plate |-> 9, owner |-> 1, contact_number |-> 1,
     service_ids |-> <<1>>, standalone_parts |-> <<VP(1, 1)>>,
     service_parts |-> <<VSP(1, 1, 1)>>, omitted |-> {}] }

\* Slot 1 issues every multi-statement request (and an update of a vehicle
\* that does not exist); slot 2 issues, at the same time, the requests that
\* touch the same rows.
ConcRequests(r, op) ==
  CASE op = "createInvoice" ->
         IF r = 1 /\ seqs.invoices < MaxConcInvoices THEN ConcInvoiceRequests ELSE {}
    [] op = "createVehicle" -> IF r = 1 THEN ConcCreateVehicleRequests ELSE {}
    [] op = "updateVehicle" ->
         {rq \in ConcUpdateVehicleRequests :
            Len(rq.standalone_parts) = r /\ (rq.id = 1 \/ r = 1)}
    [] op = "deleteWorker" -> IF r = 2 THEN IdRequests(op, {1}) ELSE {}
    [] OTHER -> IdRequests(op, {1})

NextConc ==
  \E r \in Clients :
    \/ CreateInvoice(r, ConcRequests(r, "createInvoice"))
    \/ DeleteInvoice(r, ConcRequests(r, "deleteInvoice"))
    \/ CreateVehicle(r, ConcRequests(r, "createVehicle"))
    \/ UpdateVehicle(r, ConcRequests(r, "updateVehicle"))
    \/ DeleteWorker(r, ConcRequests(r, "deleteWorker"))
    \/ Throw(r)
    \/ Rollback(r)
    \/ RollbackFails(r)
    \/ Return(r)

\* Worker 1 has been assigned service 1 and has received one payment.
InitConc ==
  /\ db = [InitDb EXCEPT !.services[1].worker_id = 1,
                         !.worker_payments = 1 :> [worker_id |-> 1, amount |-> 50]]
  /\ seqs = [invoices |-> 0, worker_payments |-> 1, vehicles |-> 1, parts |-> 2,
             workers |-> 2]
  /\ now = 1
  /\ pc = [r \in Clients |-> "idle"]
  /\ req = [r \in Clients |-> NoReq]
  /\ loc = [r \in Clients |-> NoLoc]
  /\ tx = [r \in Clients |-> NoTx]
  /\ held = [r \in Clients |-> FALSE]
  /\ resp = [r \in Clients |-> NoResp]

SpecConc == InitConc /\ [][NextConc]_vars

(***************************************************************************)
(* Invoice totals                                                          *)
(***************************************************************************)
ItemsTotalOf(d, id) == SumSeq(ItemTotals(ItemsOf(d, id)))

Supplied(rq, field) == IF IsArray(rq, field) THEN rq[field] ELSE <<>>

HasMissingPart(rq, d) ==
  \E i \in 1..Len(Supplied(rq, "parts")) : rq.parts[i].id \notin DOMAIN d.parts

\* The double x is the amount of h hundredths as JavaScript arithmetic gives
\* it: no double but a neighbour of the nearest one lies closer to h / 100.
IsAmount(x, h) == x.h = h /\ x.ulp \in -1..1

\* C1: every committed invoice has subtotal = sum of the totals of its
\* invoice_items rows + days_in_garage * garage_stay_rate, and
\* total = subtotal + tax, the sum being the one of JavaScript numbers that
\* the handler computes.
C1_SubtotalAndTotal ==
  \A id \in DOMAIN db.invoices :
    LET inv == db.invoices[id]
    IN /\ inv.subtotal =
            Scale * (ItemsTotalOf(db, id) + inv.days_in_garage * inv.garage_stay_rate)
       /\ IsAmount(inv.total, inv.subtotal + inv.tax.h)

\* C1 witness: a committed invoice with item rows and a garage stay whose
\* tax is not a two-decimal number (1440.1799999999998 for subtotal 8001).
C1_Witness ==
  \E id \in DOMAIN db.invoices :
    /\ Len(ItemsOf(db, id)) >= 1
    /\ db.invoices[id].days_in_garage >= 1
    /\ db.invoices[id].tax.ulp # 0
    /\ pc[1] = "done" /\ resp[1].status = 201

\* Math.round(x / 100) for x >= 0 in hundredths.
RoundUnits(x) == (x + 50) \div 100

\* C2: every committed invoice stores tax = round(subtotal * 0.18), a whole
\* number of currency units.
C2_TaxIsRounded ==
  \A id \in DOMAIN db.invoices :
    LET inv == db.invoices[id]
    IN inv.tax = Exact(Scale * RoundUnits((inv.subtotal \div Scale) * TaxPercent))

\* C3: a create-invoice request whose parts list names a part that does not
\* exist never answers 201, and no step taken while it is being handled
\* changes the invoices or invoice_items rows.
C3_MissingPartRollsBack ==
  /\ [](\A r \in Clients :
          (req[r].op = "createInvoice" /\ HasMissingPart(req[r], db) /\ pc[r] = "done")
            => resp[r].status \in {400, 500})
  /\ [][\A r \in Clients :
          (req[r].op = "createInvoice" /\ HasMissingPart(req[r], db))
            => /\ db'.invoices = db.invoices
               /\ db'.invoice_items = db.invoice_items]_vars

\* C3 witness: the lookup of the second part line found no row, after the
\* placeholder invoice, a service line and a valid part line were inserted.
C3_Witness ==
  /\ pc[1] = "catch"
  /\ req[1].op = "createInvoice"
  /\ Len(Supplied(req[1], "parts")) = 2
  /\ loc[1].i = 2
  /\ req[1].parts[2].id \notin DOMAIN db.parts
  /\ Len(tx[1].w) = 3

ExpectedServiceItem(id, svc) ==
  [invoice_id |-> id, item_type |-> "service", item_id |-> svc.id, quantity |-> 1,
   purchased_cost |-> NULL, unit_price |-> svc.unit_price, total |-> svc.unit_price]

ExpectedPartItem(id, part, d) ==
  [invoice_id |-> id, item_type |-> "part", item_id |-> part.id,
   quantity |-> part.quantity,
   purchased_cost |-> d.parts[part.id].purchasing_cost,
   unit_price |-> d.parts[part.id].selling_cost,
   total |-> d.parts[part.id].selling_cost * part.quantity]

ExpectedItems(id, rq, d) ==
  LET ss == Supplied(rq, "services")
      ps == Supplied(rq, "parts")
  IN [i \in 1..Len(ss) |-> ExpectedServiceItem(id, ss[i])] \o
     [i \in 1..Len(ps) |-> ExpectedPartItem(id, ps[i], d)]

IsWorkedExample(rq, d) ==
  /\ rq.days_in_garage = 2
  /\ Supplied(rq, "services") = <<Svc(1, 3000)>>
  /\ Supplied(rq, "parts") = <<Prt(1, 2)>>
  /\ d.parts[1].selling_cost = 1000

\* C4: a successful create-invoice has inserted one row per supplied service
\* then one row per supplied part, with the stated columns, and stored
\* subtotal = sum of the line totals + days * 5000, tax = 18% of subtotal and
\* total = subtotal + tax, in the handler's JavaScript arithmetic; the worked
\* example stores 15000, 2700, 17700.
C4_ItemsAndTotals ==
  \A r \in Clients :
    (pc[r] = "done" /\ req[r].op = "createInvoice" /\ resp[r].status = 201) =>
      LET id == loc[r].invoiceId
          items == ExpectedItems(id, req[r], db)
          sub == SumSeq(ItemTotals(items)) + req[r].days_in_garage * 5000
      IN /\ id \in DOMAIN db.invoices
         /\ ItemsOf(db, id) = items
         /\ db.invoices[id].subtotal = Scale * sub
         /\ IsAmount(db.invoices[id].tax, TaxPercent * sub)
         /\ IsAmount(db.invoices[id].total, db.invoices[id].subtotal + TaxPercent * sub)
         /\ IsWorkedExample(req[r], db) =>
              /\ db.invoices[id].subtotal = Scale * 15000
              /\ db.invoices[id].tax = Exact(Scale * 2700)
              /\ db.invoices[id].total = Exact(Scale * 17700)

\* C4 witness: the worked example has been answered 201.
C4_Witness ==
  /\ pc[1] = "done" /\ req[1].op = "createInvoice" /\ resp[1].status = 201
  /\ IsWorkedExample(req[1], db)

\* C10: create-invoice answers with the validation error exactly when
\* vehicle_id or days_in_garage is missing from the request.
C10_RejectsOnlyMissing ==
  \A r \in Clients :
    (pc[r] = "done" /\ req[r].op = "createInvoice") =>
      (resp[r].status = 400 <=>
         (req[r].vehicle_id = MISSING \/ req[r].days_in_garage = MISSING))

(***************************************************************************)
(* Exit and deletion of a vehicle                                          *)
(***************************************************************************)
HasIncompleteService(d, v) ==
  \E i \in 1..Len(d.vehicle_services) :
    d.vehicle_services[i].vehicle_id = v /\ d.vehicle_services[i].status # "completed"

\* C5: run on its own, exit-vehicle answers 'services incomplete' when some
\* service row of the vehicle is not completed, otherwise 'invoice missing'
\* when the vehicle has no invoice, otherwise succeeds with exit_time set
\* (unless a statement fails, which is answered 500); and exit_time changes
\* only in a state where all services are completed and an invoice exists.
C5_ExitGuarded ==
  /\ [](\A r \in Clients :
          (pc[r] = "done" /\ req[r].op = "exitVehicle" /\ resp[r].status # 500) =>
            LET v == req[r].id
            IN IF HasIncompleteService(db, v)
               THEN resp[r] = [status |-> 400, error |-> ServicesIncompleteMsg]
               ELSE IF InvoicesOfVehicle(db, v) = {}
               THEN resp[r] = [status |-> 400, error |-> InvoiceMissingMsg]
               ELSE /\ resp[r].status = 200
                    /\ v \in DOMAIN db.vehicles => db.vehicles[v].exit_time # NULL)
  /\ [][\A v \in DOMAIN db.vehicles \cap DOMAIN db'.vehicles :
          db'.vehicles[v].exit_time # db.vehicles[v].exit_time =>
            /\ ~HasIncompleteService(db, v)
            /\ InvoicesOfVehicle(db, v) # {}]_vars

\* C5 witness: an exit request has succeeded and exit_time is set.
C5_Witness ==
  /\ pc[1] = "done" /\ req[1].op = "exitVehicle" /\ resp[1].status = 200
  /\ req[1].id \in DOMAIN db.vehicles
  /\ db.vehicles[req[1].id].exit_time # NULL

\* C6: after delete-vehicle has answered 204 the vehicle row is gone, no
\* invoices row has that vehicle_id and no invoice_items row belongs to an
\* invoice of that vehicle.
C6_DeleteVehicleCascades ==
  \A r \in Clients :
    (pc[r] = "done" /\ req[r].op = "deleteVehicle" /\ resp[r].status = 204) =>
      /\ req[r].id \notin DOMAIN db.vehicles
      /\ InvoicesOfVehicle(db, req[r].id) = {}
      /\ \A i \in 1..Len(db.invoice_items) :
            db.invoice_items[i].invoice_id \in DOMAIN db.invoices =>
              db.invoices[db.invoice_items[i].invoice_id].vehicle_id # req[r].id

(***************************************************************************)
(* Deletion of a worker                                                    *)
(***************************************************************************)
\* C7: delete-worker for an existing worker W answers 204 and its commit
\* sets worker_id to null on exactly the services that had W, removes
\* exactly W's payments and removes the workers row, leaving other rows as
\* they were; for a worker id that does not exist it answers 404.
C7_DeleteWorker ==
  /\ [](\A r \in Clients :
          (pc[r] = "done" /\ req[r].op = "deleteWorker" /\ resp[r].status = 204) =>
            /\ req[r].id \notin db.workers
            /\ \A sv \in DOMAIN db.services : db.services[sv].worker_id # req[r].id
            /\ \A p \in DOMAIN db.worker_payments :
                  db.worker_payments[p].worker_id # req[r].id)
  /\ [][\A r \in Clients :
          (req[r].op = "deleteWorker" /\ pc[r] = "dw_commit" /\ pc'[r] = "done") =>
            LET w == req[r].id
            IN IF w \in db.workers
               THEN /\ resp'[r].status = 204
                    /\ db'.workers = db.workers \ {w}
                    /\ db'.services =
                         [sv \in DOMAIN db.services |->
                            IF db.services[sv].worker_id = w
                            THEN [worker_id |-> NULL]
                            ELSE db.services[sv]]
                    /\ db'.worker_payments =
                         [p \in {q \in DOMAIN db.worker_payments :
                                    db.worker_payments[q].worker_id # w} |->
                            db.worker_payments[p]]
               ELSE resp'[r].status = 404]_vars

\* C7 witness: a worker with an assigned service and a payment has been
\* deleted with 204 while another worker keeps a service and a payment.
C7_Witness ==
  /\ pc[1] = "done" /\ req[1].op = "deleteWorker" /\ resp[1].status = 204
  /\ \E sv \in DOMAIN db.services :
        db.services[sv].worker_id \in db.workers
  /\ \E sv \in DOMAIN db.services : db.services[sv].worker_id = NULL
  /\ Cardinality(DOMAIN db.worker_payments) = 1
  /\ seqs.worker_payments = 2

(***************************************************************************)
(* Update of a vehicle                                                     *)
(***************************************************************************)
SuppliedPartRows(rq) ==
  LET l == Supplied(rq, "standalone_parts")
  IN [i \in 1..Len(l) |->
        [vehicle_id |-> rq.id, part_id |-> l[i].part_id, quantity |-> l[i].quantity]]

SuppliedServicePartRows(rq) ==
  LET l == Supplied(rq, "service_parts")
  IN [i \in 1..Len(l) |->
        [vehicle_id |-> rq.id, service_id |-> l[i].service_id, part_id |-> l[i].part_id,
         quantity |-> l[i].quantity]]

\* C8: after update-vehicle has answered 200 the vehicle's vehicle_parts
\* rows are exactly the supplied standalone_parts list and its
\* vehicle_service_parts rows exactly the supplied service_parts list (none
\* for an omitted or empty list), whatever rows existed before.
C8_FullReplace ==
  \A r \in Clients :
    (pc[r] = "done" /\ req[r].op = "updateVehicle" /\ resp[r].status = 200) =>
      /\ PartsOfVehicle(db, req[r].id) = SuppliedPartRows(req[r])
      /\ ServicePartsOfVehicle(db, req[r].id) = SuppliedServicePartRows(req[r])

\* C8 witness: an update is about to commit a new non-empty list over
\* different, non-empty committed rows of both kinds.
C8_Witness ==
  /\ pc[1] = "uv_commit" /\ req[1].op = "updateVehicle"
  /\ PartsOfVehicle(db, req[1].id) # <<>>
  /\ ServicePartsOfVehicle(db, req[1].id) # <<>>
  /\ SuppliedPartRows(req[1]) # <<>>
  /\ PartsOfVehicle(db, req[1].id) # SuppliedPartRows(req[1])
  /\ PartsOfVehicle(View(1), req[1].id) = SuppliedPartRows(req[1])

(***************************************************************************)
(* Atomicity of the multi-statement mutations                              *)
(***************************************************************************)
Repeat(k, n) == [i \in 1..n |-> k]

\* The kinds of write a request issues between BEGIN and COMMIT, in order.
ExpectedWrites(rq) ==
  CASE rq.op = "createInvoice" ->
         <<"insInvoice">>
           \o Repeat("insItem", Len(Supplied(rq, "services")) + Len(Supplied(rq, "parts")))
           \o <<"updTotals">>
    [] rq.op = "deleteInvoice" -> <<"delItems", "delInvoice">>
    [] rq.op = "createVehicle" ->
         <<"insVehicle">> \o Repeat("insVS", Len(Supplied(rq, "service_ids")))
           \o Repeat("insVP", Len(Supplied(rq, "standalone_parts")))
           \o Repeat("insVSP", Len(Supplied(rq, "service_parts")))
    [] rq.op = "updateVehicle" ->
         <<"updVehicle", "delVP">>
           \o Repeat("insVP", Len(Supplied(rq, "standalone_parts")))
           \o <<"delVSP">> \o Repeat("insVSP", Len(Supplied(rq, "service_parts")))
    [] rq.op = "deleteWorker" -> <<"setWorker", "delPayments", "delWorker">>
    [] OTHER -> <<>>

MultiStatementOps ==
  {"createInvoice", "deleteInvoice", "createVehicle", "updateVehicle", "deleteWorker"}

\* Slot r commits the whole of its request's writes in this step.
CommitsWhole(r) ==
  /\ req[r].op \in MultiStatementOps
  /\ tx[r].open
  /\ [i \in 1..Len(tx[r].w) |-> tx[r].w[i].k] = ExpectedWrites(req[r])
  /\ db' = ApplyAll(db, tx[r].w)
  /\ ~tx'[r].open

\* The (vehicle_parts, vehicle_service_parts) rows of vehicle v that some
\* request supplies in full, and those it starts with.
WholePartLists(v) ==
  { <<PartsOfVehicle(InitDb, v), ServicePartsOfVehicle(InitDb, v)>> }
    \cup { <<SuppliedPartRows(rq), SuppliedServicePartRows(rq)>> :
             rq \in { [x EXCEPT !.id = v] : x \in ConcUpdateVehicleRequests } }

\* C9: the committed database changes only by a COMMIT that applies all the
\* writes of one multi-statement request at once; a finished request leaves
\* no transaction
\* open; and the committed data never holds an invoice whose totals are not
\* those of its items (the zero placeholder included) or a vehicle whose
\* part rows are not one whole supplied list.
C9_AllOrNothing ==
  /\ [][db' # db => \E r \in Clients : CommitsWhole(r)]_vars
  /\ [](\A r \in Clients : pc[r] \in {"idle", "done"} => ~tx[r].open)
  /\ [](\A id \in DOMAIN db.invoices :
          /\ db.invoices[id].subtotal > 0
          /\ db.invoices[id].subtotal =
               Scale * (ItemsTotalOf(db, id)
                        + db.invoices[id].days_in_garage * db.invoices[id].garage_stay_rate)
          /\ Len(ItemsOf(db, id)) = 2)
  /\ [](\A v \in 1..(MaxVehicles + 1) :
          IF v \in DOMAIN db.vehicles
          THEN /\ <<PartsOfVehicle(db, v), ServicePartsOfVehicle(db, v)>>
                    \in WholePartLists(v)
               /\ ServicesOfVehicle(db, v) # <<>>
          ELSE /\ PartsOfVehicle(db, v) = <<>>
               /\ ServicePartsOfVehicle(db, v) = <<>>
               /\ ServicesOfVehicle(db, v) = <<>>)

\* C9 witness: one request has deleted a vehicle's part rows and not yet
\* re-inserted them while another has inserted the placeholder invoice; both
\* are visible only inside their own transactions.
C9_Witness ==
  /\ pc[2] = "uv_part" /\ req[2].op = "updateVehicle"
  /\ PartsOfVehicle(View(2), req[2].id) = <<>>
  /\ PartsOfVehicle(db, req[2].id) # <<>>
  /\ pc[1] = "ci_service" /\ req[1].op = "createInvoice"
  /\ DOMAIN View(1).invoices # DOMAIN db.invoices
  /\ \E id \in DOMAIN View(1).invoices : View(1).invoices[id].subtotal = 0

(***************************************************************************)
(* A committed invoice is not rewritten                                    *)
(***************************************************************************)
\* C11: a step leaves every committed invoice row and its invoice_items rows
\* as they were, unless the step belongs to a delete-invoice or
\* delete-vehicle request.
C11_InvoiceImmutable ==
  [][\A id \in DOMAIN db.invoices :
       \/ /\ id \in DOMAIN db'.invoices
          /\ db'.invoices[id] = db.invoices[id]
          /\ ItemsOf(db', id) = ItemsOf(db, id)
       \/ \E r \in Clients :
            /\ req[r].op \in {"deleteInvoice", "deleteVehicle"}
            /\ pc'[r] # pc[r]]_vars

\* C11 witness: an invoice holds a part line priced 1000 while that part has
\* been repriced or deleted, its vehicle has been updated and has exited,
\* and a second invoice of the same vehicle exists.
C11_Witness ==
  /\ DOMAIN db.invoices = {1, 2}
  /\ db.invoices[2].vehicle_id = db.invoices[1].vehicle_id
  /\ \E i \in 1..Len(db.invoice_items) :
        /\ db.invoice_items[i].invoice_id = 1
        /\ db.invoice_items[i].item_type = "part"
        /\ db.invoice_items[i].unit_price = 1000
        /\ \/ db.invoice_items[i].item_id \notin DOMAIN db.parts
           \/ db.parts[db.invoice_items[i].item_id].selling_cost # 1000
  /\ 1 \in DOMAIN db.vehicles
  /\ db.vehicles[1].plate = 8
  /\ db.vehicles[1].exit_time # NULL

(***************************************************************************)
(* The exit time                                                           *)
(***************************************************************************)
\* C12: once a vehicle's exit_time is non-null, no step changes it.
C12_ExitTimeSetOnce ==
  [][\A v \in DOMAIN db.vehicles :
       (db.vehicles[v].exit_time # NULL /\ v \in DOMAIN db'.vehicles)
         => db'.vehicles[v].exit_time = db.vehicles[v].exit_time]_vars

(***************************************************************************)
(* References to workers                                                   *)
(***************************************************************************)
\* C13: no committed services row names a worker that does not exist, and
\* no committed worker_payments row belongs to a worker that does not exist.
C13_NoDanglingWorker ==
  /\ \A sv \in DOMAIN db.services :
        db.services[sv].worker_id = NULL \/ db.services[sv].worker_id \in db.workers
  /\ \A p \in DOMAIN db.worker_payments :
        db.worker_payments[p].worker_id \in db.workers

(***************************************************************************)
(* Creation of a vehicle                                                   *)
(***************************************************************************)
VehicleTables(d) ==
  <<d.vehicles, d.vehicle_services, d.vehicle_parts, d.vehicle_service_parts>>

\* C14: when create-vehicle has answered 201 the new vehicle row exists with
\* entry_time set and exit_time null, with one pending vehicle_services row
\* per supplied service id and exactly the supplied standalone-part and
\* service-part rows; and the only step of a create-vehicle request that
\* changes the vehicle tables is the COMMIT that is answered 201, so a
\* request answered 400 or 500 leaves no row.
C14_CreateVehicleWhole ==
  /\ [](\A r \in Clients :
          (pc[r] = "done" /\ req[r].op = "createVehicle" /\ resp[r].status = 201) =>
            LET id == loc[r].vehicleId
                sids == Supplied(req[r], "service_ids")
                sp == Supplied(req[r], "standalone_parts")
                svp == Supplied(req[r], "service_parts")
            IN /\ id \in DOMAIN db.vehicles
               /\ db.vehicles[id].entry_time # NULL
               /\ db.vehicles[id].exit_time = NULL
               /\ ServicesOfVehicle(db, id) =
                    [i \in 1..Len(sids) |->
                       [vehicle_id |-> id, service_id |-> sids[i], status |-> "pending"]]
               /\ PartsOfVehicle(db, id) =
                    [i \in 1..Len(sp) |->
                       [vehicle_id |-> id, part_id |-> sp[i].part_id,
                        quantity |-> sp[i].quantity]]
               /\ ServicePartsOfVehicle(db, id) =
                    [i \in 1..Len(svp) |->
                       [vehicle_id |-> id, service_id |-> svp[i].service_id,
                        part_id |-> svp[i].part_id, quantity |-> svp[i].quantity]])
  /\ [][\A r \in Clients :
          (req[r].op = "createVehicle" /\ VehicleTables(db') # VehicleTables(db))
            => (pc[r] = "cv_commit" /\ pc'[r] = "done" /\ resp'[r].status = 201)]_vars

\* C14 witness: a vehicle was created with two services, a standalone part
\* and a service part.
C14_Witness ==
  /\ pc[1] = "done" /\ req[1].op = "createVehicle" /\ resp[1].status = 201
  /\ Len(Supplied(req[1], "service_ids")) = 2
  /\ Len(ServicesOfVehicle(db, loc[1].vehicleId)) = 2
  /\ PartsOfVehicle(db, loc[1].vehicleId) # <<>>
  /\ ServicePartsOfVehicle(db, loc[1].vehicleId) # <<>>

(***************************************************************************)
(* Pooled connections                                                      *)
(***************************************************************************)
\* C15: a handler that takes a pooled client holds it from pool.connect()
\* until it finishes and releases it in the step in which it finishes, on
\* every path (2xx, 400, 404, a failing statement, a failing ROLLBACK); no
\* finished or idle slot holds a client.  (A handler whose promise rejects
\* unobserved has finished too, whether or not the process then exits.)
C15_ConnectionsReleased ==
  /\ [](\A r \in Clients :
          /\ pc[r] \in {"idle", "done"} => ~held[r]
          /\ (pc[r] \notin {"idle", "done", "exited"} /\ req[r].op \in ConnectOps)
               => held[r])
  /\ [][\A r \in Clients :
          /\ (held[r] /\ ~held'[r])
               => (pc[r] \notin {"done", "exited"} /\ pc'[r] \in {"done", "exited"})
          /\ (~held[r] /\ held'[r]) => (pc[r] = "idle" /\ req'[r].op \in ConnectOps)]_vars

\* C15 witness: the ROLLBACK of a failed update-vehicle has itself failed
\* (no response was sent) and the client is back in the pool.
C15_Witness ==
  /\ pc[1] = "done" /\ req[1].op = "updateVehicle"
  /\ resp[1].status = 0
  /\ ~held[1]

\* C16: no error escapes a handler (the process never exits on an
\* unhandled rejection) and every finished request has been answered: a
\* handler that is done has sent a response, and the step that finishes a
\* request after a storage failure (a rejected connect, or leaving the catch
\* block) sends the 500 mapping.
C16_AlwaysAnswered ==
  /\ [](\A r \in Clients : pc[r] # "exited")
  /\ [](\A r \in Clients : pc[r] = "done" => resp[r].status # 0)
  /\ [][\A r \in Clients :
          (pc[r] = "catch" /\ pc'[r] = "done") => resp'[r].status = 500]_vars

(***************************************************************************)
(* Exit preconditions                                                      *)
(***************************************************************************)
\* C17: whenever exit-vehicle writes exit_time (its UPDATE is answered 200),
\* the stored rows at that moment show every service of the vehicle
\* completed and at least one invoice for it, whatever update-service-status
\* and delete-invoice requests run at the same time.
C17_ExitWriteAtomic ==
  [][\A r \in Clients :
       (pc[r] = "ex_update" /\ pc'[r] = "done" /\ resp'[r].status = 200)
         => /\ IncompleteCount(db, req[r].id) = 0
            /\ InvoiceCount(db, req[r].id) > 0]_vars

(***************************************************************************)
(* Amounts on the PDF                                                      *)
(***************************************************************************)
\* C18: for every committed invoice the tax and total that the PDF handler
\* derives from the stored subtotal equal the stored tax and total.
C18_PdfMatchesStored ==
  \A id \in DOMAIN db.invoices :
    /\ taxRWF(db.invoices[id]) = db.invoices[id].tax
    /\ totalRWF(db.invoices[id]) = db.invoices[id].total

(***************************************************************************)
(* Exited vehicles                                                         *)
(***************************************************************************)
\* C19: in every reachable state a vehicle whose exit_time is set has all
\* its services completed and at least one invoice.
C19_ExitedStaysValid ==
  \A v \in DOMAIN db.vehicles :
    db.vehicles[v].exit_time # NULL
      => /\ IncompleteCount(db, v) = 0
         /\ InvoiceCount(db, v) > 0

=============================================================================
